---- MODULE Spec2Model ----
(***************************************************************************)
(* Model of gog-games-browser: installer discovery (scanner.py), the       *)
(* per-game metadata store (metadata.py), the scan flow (scan_flow.py),    *)
(* the GOG client's request loop (gog_client.py), the override route       *)
(* (web/routes.py), the webhook posts (discord_notify.py) and the scan     *)
(* scheduler (scheduler.py).                                               *)
(*                                                                         *)
(* Python strings are sequences of one-character strings.  None is the     *)
(* one-element sequence NoneStr, which is no string of characters.         *)
(***************************************************************************)
EXTENDS FiniteSets, Integers, Sequences, TLC

VARIABLES
    relative_path,  \* _sanitize_key: argument relative_path
    internal,       \* _sanitize_key: argument internal (NoneStr for None)
    key_out,        \* _sanitize_key: returned key (NoneStr before the call)
    name_path,      \* _display_name_from_path: argument fs_path
    name_inner,     \* _display_name_from_path: argument internal_path
    name_out,       \* _display_name_from_path: returned name (NoneStr before)
    tree,           \* the files under the installer root (relative paths)
    bad_rars,       \* archives of the tree that cannot be opened or listed
    have_rarfile,   \* scanner.rarfile is not None
    webhook_url,    \* what get_discord_webhook_url returns ("" when not set)
    entries,        \* the list scan_installers returned last
    opened,         \* the archives that call handed to _scan_rar
    same_tree,      \* the tree is as it was at that call
    earlier,        \* the keys of the call before it, if the tree was the same
    scan_state,     \* the file _scan_state.json under the metadata root
    store,          \* override.json of each game directory that has one
    pc,             \* where run_scan is: idle, fetch, sleep, hung, done, failed
    fail_at,        \* the statement whose exception left run_scan
    prev_keys,      \* run_scan: prev_keys
    added_keys,     \* run_scan: added_keys
    removed_keys,   \* run_scan: removed_keys
    todo,           \* run_scan: the added keys the loop has not reached yet
    cur,            \* run_scan: key of the loop iteration awaiting the fetch
    override_data,  \* run_scan: override_data of that iteration
    product_id,     \* run_scan: product_id of that iteration ({} for None)
    errors,         \* run_scan: errors
    new_game_names, \* run_scan: new_game_names
    depth,          \* get_product: nested calls after 429 answers
    summary,        \* what run_scan returned (<<>> when it has not)
    start_kind,     \* the kind of _scan_state.json when the scan started
    posts,          \* the webhook posts run_scan has made, with their outcome
    known,          \* the keys the last completed scan discovered
    user_ov,        \* the overrides users set while no scan was running
    n_scans,        \* the scans started so far
    n_puts,         \* the override requests served so far
    schedule,       \* the value of GOG_SCAN_SCHEDULE in the environment
    _scheduler,     \* scheduler._scheduler: {} for None, else {the scheduler}
    running,        \* the BackgroundSchedulers that were started and not shut down
    n_created,      \* the BackgroundSchedulers created so far
    last_call,      \* the last call of start_scheduler or stop_scheduler
    other_scan      \* run_scan: the variables of a second call, waiting at an await

keyVars == <<relative_path, internal, key_out, name_path, name_inner, name_out>>

treeVars == <<tree, bad_rars, have_rarfile, webhook_url>>

discVars == <<entries, opened, same_tree, earlier>>

fileVars == <<scan_state, store>>

scanVars == <<pc, fail_at, prev_keys, added_keys, removed_keys, todo, cur,
              override_data, product_id, errors, new_game_names, depth,
              summary, start_kind, posts>>

ghostVars == <<known, user_ov>>

countVars == <<n_scans, n_puts>>

schedVars == <<schedule, _scheduler, running, n_created, last_call>>

vars == <<keyVars, treeVars, discVars, fileVars, scanVars, ghostVars, countVars,
          schedVars, other_scan>>

-----------------------------------------------------------------------------
(* Strings *)

NoneStr == <<"None">>

\* the characters str.replace turns into "_" in relative_path
PathSeps == {"\\", "/"}

ReservedChars == {":", "*", "?", "\"", "<", ">", "|"}

AsciiLetters ==
    {"a","b","c","d","e","f","g","h","i","j","k","l","m",
     "n","o","p","q","r","s","t","u","v","w","x","y","z",
     "A","B","C","D","E","F","G","H","I","J","K","L","M",
     "N","O","P","Q","R","S","T","U","V","W","X","Y","Z"}

AsciiDigits == {"0","1","2","3","4","5","6","7","8","9"}

\* the characters of a filesystem- and URL-safe key: [A-Za-z0-9._-]
SafeChars == AsciiLetters \cup AsciiDigits \cup {".", "_", "-"}

\* str.replace(c, to) for every c in cs
ReplaceWith(s, cs, to) == [i \in 1..Len(s) |-> IF s[i] \in cs THEN to ELSE s[i]]

\* str.replace(c, "_") for every c in cs
ReplaceChars(s, cs) == ReplaceWith(s, cs, "_")

RECURSIVE LStrip(_, _)
LStrip(s, c) == IF s # <<>> /\ Head(s) = c THEN LStrip(Tail(s), c) ELSE s

RECURSIVE RStrip(_, _)
RStrip(s, c) ==
    IF s # <<>> /\ s[Len(s)] = c THEN RStrip(SubSeq(s, 1, Len(s) - 1), c) ELSE s

\* a strip that forgets the right end
StripLeftOnly(s, c) == LStrip(s, c)

\* str.strip(c)
Strip(s, c) == RStrip(LStrip(s, c), c)

\* Python truthiness of an optional string: None and "" are falsy
Truthy(s) == s # NoneStr /\ s # <<>>

Unknown_key == <<"u","n","k","n","o","w","n">>

-----------------------------------------------------------------------------
(* scanner.py: _sanitize_key *)

_sanitize_key(rel, inner) ==
    LET key1 == ReplaceChars(rel, PathSeps)
        key2 == ReplaceChars(key1, ReservedChars)
        key3 == IF Truthy(inner)
                THEN key2 \o <<"_">> \o ReplaceChars(inner, PathSeps)
                ELSE key2
        key4 == Strip(key3, "_")
    IN  IF key4 = <<>> THEN Unknown_key ELSE key4

-----------------------------------------------------------------------------
(* Characters, pathlib and the regular expressions of scanner.py *)

UpperSeq == <<"A","B","C","D","E","F","G","H","I","J","K","L","M","N","O","P","Q","R","S","T","U","V","W","X","Y","Z">>
LowerSeq == <<"a","b","c","d","e","f","g","h","i","j","k","l","m","n","o","p","q","r","s","t","u","v","w","x","y","z">>
DigitSeq == <<"0","1","2","3","4","5","6","7","8","9">>

LowerChar(c) ==
    IF \E i \in 1..Len(UpperSeq) : UpperSeq[i] = c
    THEN LowerSeq[CHOOSE i \in 1..Len(UpperSeq) : UpperSeq[i] = c]
    ELSE c

\* str.lower()
Lower(s) == [i \in 1..Len(s) |-> LowerChar(s[i])]

StartsWith(s, pre) == Len(s) >= Len(pre) /\ SubSeq(s, 1, Len(pre)) = pre

EndsWith(s, suf) ==
    Len(s) >= Len(suf) /\ SubSeq(s, Len(s) - Len(suf) + 1, Len(s)) = suf

DropLast(s, n) == SubSeq(s, 1, Len(s) - n)

\* index of the last occurrence of character c in s, 0 when there is none
LastIndexOf(s, c) ==
    IF \E i \in 1..Len(s) : s[i] = c
    THEN CHOOSE i \in 1..Len(s) : s[i] = c /\ \A j \in (i+1)..Len(s) : s[j] # c
    ELSE 0

\* PurePath.name: the last component of a "/"-separated path
PathName(p) == SubSeq(p, LastIndexOf(p, "/") + 1, Len(p))

\* PurePath.parent, as a string without the trailing separator
PathParent(p) ==
    IF LastIndexOf(p, "/") = 0 THEN <<>> ELSE SubSeq(p, 1, LastIndexOf(p, "/") - 1)

\* PurePath.suffix: from the last dot of the name, unless the dot is the
\* first or the last character of the name
PathSuffix(p) ==
    LET n == PathName(p)
        i == LastIndexOf(n, ".")
    IN  IF 1 < i /\ i < Len(n) THEN SubSeq(n, i, Len(n)) ELSE <<>>

\* PurePath.stem
PathStem(p) ==
    LET n == PathName(p)
        i == LastIndexOf(n, ".")
    IN  IF 1 < i /\ i < Len(n) THEN SubSeq(n, 1, i - 1) ELSE n

Str_setup_ == <<"s","e","t","u","p","_">>
Str_exe == <<".","e","x","e">>
Str_part == <<".","p","a","r","t">>
Str_Unknown == <<"U","n","k","n","o","w","n">>

\* RAR_EXT
RAR_EXT == <<".","r","a","r">>

\* SETUP_PATTERN.match(name): ^setup_.*\.exe$ with re.IGNORECASE
SETUP_PATTERN(name) ==
    /\ Len(name) >= Len(Str_setup_) + Len(Str_exe)
    /\ StartsWith(Lower(name), Str_setup_)
    /\ EndsWith(Lower(name), Str_exe)

\* number of digits at the end of s
RECURSIVE TrailingDigits(_)
TrailingDigits(s) ==
    IF s # <<>> /\ s[Len(s)] \in AsciiDigits
    THEN 1 + TrailingDigits(DropLast(s, 1))
    ELSE 0

\* matches \.part\d+$ (re.IGNORECASE) at the end of s
EndsWithPartN(s) ==
    /\ TrailingDigits(s) >= 1
    /\ EndsWith(Lower(DropLast(s, TrailingDigits(s))), Str_part)

\* PART_RAR_PATTERN.search(name): \.part\d+\.rar$ with re.IGNORECASE
PART_RAR_PATTERN(name) ==
    /\ EndsWith(Lower(name), RAR_EXT)
    /\ EndsWithPartN(DropLast(name, Len(RAR_EXT)))

\* re.sub(r"\.part\d+$", "", s, flags=re.IGNORECASE)
StripPartN(s) ==
    IF EndsWithPartN(s)
    THEN DropLast(s, TrailingDigits(s) + Len(Str_part))
    ELSE s

DigitVal(c) == (CHOOSE i \in 1..Len(DigitSeq) : DigitSeq[i] = c) - 1

\* int(digits)
RECURSIVE ParseInt(_)
ParseInt(ds) ==
    IF ds = <<>> THEN 0
    ELSE 10 * ParseInt(DropLast(ds, 1)) + DigitVal(ds[Len(ds)])

\* int(m.group(1)) for m = re.search(r"\.part(\d+)\.rar$", name)
PartNumber(name) ==
    LET body == DropLast(name, Len(RAR_EXT))
    IN  ParseInt(SubSeq(body, Len(body) - TrailingDigits(body) + 1, Len(body)))

-----------------------------------------------------------------------------
(* scanner.py: _display_name_from_path, _is_first_rar_part *)

\* the resolved installer root, and Path objects under it
RootDir == <<"/","r">>

AbsPath(rel) == RootDir \o <<"/">> \o rel

\* a name that keeps the volume suffix of a first volume
_display_name_keeps_part(fs_path, internal_path) ==
    IF Truthy(internal_path)
    THEN LET shown == Strip(ReplaceWith(PathStem(fs_path), {"_"}, " "), " ")
         IN  IF shown = <<>> THEN PathName(fs_path) ELSE shown
    ELSE LET parent == PathParent(fs_path)
         IN  IF PathName(parent) # <<>>
             THEN Strip(ReplaceWith(PathName(parent), {"_"}, " "), " ")
             ELSE LET shown == Strip(ReplaceWith(PathStem(fs_path), {"_"}, " "), " ")
                  IN  IF shown = <<>> THEN Str_Unknown ELSE shown

_display_name_from_path(fs_path, internal_path) ==
    IF Truthy(internal_path)
    THEN LET stem0 == PathStem(fs_path)
             stem  == IF PART_RAR_PATTERN(PathName(fs_path))
                      THEN StripPartN(stem0) ELSE stem0
             shown == Strip(ReplaceWith(stem, {"_"}, " "), " ")
         IN  IF shown = <<>> THEN PathName(fs_path) ELSE shown
    ELSE LET parent == PathParent(fs_path)
         IN  IF PathName(parent) # <<>>
             THEN Strip(ReplaceWith(PathName(parent), {"_"}, " "), " ")
             ELSE LET shown == Strip(ReplaceWith(PathStem(fs_path), {"_"}, " "), " ")
                  IN  IF shown = <<>> THEN Str_Unknown ELSE shown

_is_first_rar_part(path) ==
    IF Lower(PathSuffix(path)) = RAR_EXT /\ EndsWith(Lower(PathName(path)), RAR_EXT)
    THEN IF PART_RAR_PATTERN(PathName(path))
         THEN PartNumber(PathName(path)) = 1
         ELSE TRUE
    ELSE FALSE

-----------------------------------------------------------------------------
(* The installer tree: files are named by their path relative to the root. *)

F_AB_sp == <<"A"," ","B","/","s","e","t","u","p","_","x",".","e","x","e">>
F_AB_us == <<"A","_","B","/","s","e","t","u","p","_","x",".","e","x","e">>
F_a_G == <<"a","/","G",".","r","a","r">>
F_b_G1 == <<"b","/","G",".","p","a","r","t","0","1",".","r","a","r">>
F_b_G2 == <<"b","/","G",".","p","a","r","t","0","2",".","r","a","r">>
\* a standalone installer whose key is that of the installer F_b_G1 lists
F_dup == <<"b","_","G",".","p","a","r","t","0","1",".","r","a","r","_","d","/",
           "S","e","t","u","p","_","h",".","E","X","E">>

N_setup_g == <<"s","e","t","u","p","_","g",".","e","x","e">>
N_d_setup_h == <<"d","\\","S","e","t","u","p","_","h",".","E","X","E">>
N_readme == <<"r","e","a","d","m","e",".","t","x","t">>

\* every file the tree may hold
FileUniverse == {F_AB_sp, F_AB_us, F_a_G, F_b_G1, F_b_G2, F_dup}

\* rf.namelist() of each archive file when it can be opened and listed
Namelist(path) ==
    CASE path = F_a_G  -> <<N_readme, N_setup_g>>
      [] path = F_b_G1 -> <<N_d_setup_h>>
      [] path = F_b_G2 -> <<N_d_setup_h>>
      [] OTHER -> <<>>

RECURSIVE Perms(_)
Perms(S) ==
    IF S = {} THEN {<<>>}
    ELSE UNION {{<<x>> \o p : p \in Perms(S \ {x})} : x \in S}

\* PurePath.parent of every file of the universe
DirOf == [f \in FileUniverse |-> PathParent(f)]

\* directory d is a proper ancestor of directory d2
IsAncestorDir(d, d2) == d # d2 /\ (d = <<>> \/ StartsWith(d2, d \o <<"/">>))

\* the orders in which the walk may visit the directories: a directory comes
\* before its subdirectories, siblings in the arbitrary order of os.scandir
DirOrders(files) ==
    {o \in Perms({DirOf[f] : f \in files}) :
        \A i, j \in 1..Len(o) : IsAncestorDir(o[i], o[j]) => i < j}

\* the walks that visit the directories in the order dirs
RECURSIVE WalksOfDirs(_, _)
WalksOfDirs(dirs, files) ==
    IF dirs = <<>> THEN {<<>>}
    ELSE {p \o rest : p \in Perms({f \in files : DirOf[f] = Head(dirs)}),
                      rest \in WalksOfDirs(Tail(dirs), files)}

\* root.rglob("*") restricted to files: directory by directory, the entries
\* of a directory in the arbitrary order of os.scandir
WalkOrders(files) == UNION {WalksOfDirs(o, files) : o \in DirOrders(files)}

-----------------------------------------------------------------------------
(* scanner.py: InstallerEntry and the discovery functions *)

InstallerEntry(key, path_type, fs_path, internal_path, display_name) ==
    [key |-> key, path_type |-> path_type, fs_path |-> fs_path,
     internal_path |-> internal_path, display_name |-> display_name]

\* the entry _scan_direct yields for a file whose name matches SETUP_PATTERN
DirectEntry(rel) ==
    InstallerEntry(_sanitize_key(rel, NoneStr), "file", AbsPath(rel), NoneStr,
                   _display_name_from_path(AbsPath(rel), NoneStr))

\* the per-file results of _scan_direct, computed once for the universe
DirectHit == [f \in FileUniverse |-> SETUP_PATTERN(PathName(f))]
DirectEntryOf == [f \in FileUniverse |-> DirectEntry(f)]

\* _scan_direct over one walk of the tree
_scan_direct(walk) ==
    LET hits == SelectSeq(walk, LAMBDA rel : DirectHit[rel])
    IN  [i \in 1..Len(hits) |-> DirectEntryOf[hits[i]]]

\* name.replace("\\", "/").split("/")[-1]
EntryBase(name) == PathName(ReplaceWith(name, {"\\"}, "/"))

\* the entries _scan_rar yields for an archive it can list
ListedEntries(rar_rel) ==
    LET hits == SelectSeq(Namelist(rar_rel),
                          LAMBDA name : SETUP_PATTERN(EntryBase(name)))
    IN  [i \in 1..Len(hits) |->
            InstallerEntry(_sanitize_key(rar_rel, hits[i]), "rar",
                           AbsPath(rar_rel), hits[i],
                           _display_name_from_path(AbsPath(rar_rel), hits[i]))]

ListedEntriesOf == [f \in FileUniverse |-> ListedEntries(f)]

\* _scan_rar: rar_ok is "rarfile is not None", bad the archives whose
\* RarFile() or namelist() raises
_scan_rar(rar_rel, rar_ok, bad) ==
    IF ~rar_ok THEN <<>>
    ELSE IF rar_rel \in bad THEN <<>>
    ELSE ListedEntriesOf[rar_rel]

\* the logical archive name _scan_rar_files remembers in seen_bases
RarBase(path) ==
    IF PART_RAR_PATTERN(PathName(path))
    THEN StripPartN(PathStem(path)) ELSE PathStem(path)

\* the tests of the loop of _scan_rar_files, computed once for the universe
RarSuffixOf == [f \in FileUniverse |-> Lower(PathSuffix(f)) = RAR_EXT]
FirstPartOf == [f \in FileUniverse |-> _is_first_rar_part(f)]
RarBaseOf == [f \in FileUniverse |-> RarBase(f)]

\* the loop of _scan_rar_files from position i of the walk on; the result holds
\* the entries yielded and the archives handed to _scan_rar
RECURSIVE RarLoop(_, _, _, _, _)
RarLoop(walk, i, seen_bases, rar_ok, bad) ==
    IF i > Len(walk) THEN [out |-> <<>>, opened |-> {}]
    ELSE LET path == walk[i]
         IN  IF \/ ~RarSuffixOf[path]
                \/ ~FirstPartOf[path]
                \/ RarBaseOf[path] \in seen_bases
             THEN RarLoop(walk, i + 1, seen_bases, rar_ok, bad)
             ELSE LET rest == RarLoop(walk, i + 1, seen_bases \cup {RarBaseOf[path]},
                                      rar_ok, bad)
                  IN  [out |-> _scan_rar(path, rar_ok, bad) \o rest.out,
                       opened |-> {path} \cup rest.opened]

_scan_rar_files(walk, rar_ok, bad) == RarLoop(walk, 1, {}, rar_ok, bad)

\* loops that keep the last entry of a key
RECURSIVE KeepLastOfKey(_, _)
KeepLastOfKey(es, seen_keys) ==
    IF es = <<>> THEN <<>>
    ELSE IF Head(es).key \in {Tail(es)[i].key : i \in 1..Len(Tail(es))}
         THEN KeepLastOfKey(Tail(es), seen_keys)
         ELSE <<Head(es)>> \o KeepLastOfKey(Tail(es), seen_keys)

\* the two loops of scan_installers: the first entry of a key is kept
RECURSIVE KeepFirstOfKey(_, _)
KeepFirstOfKey(es, seen_keys) ==
    IF es = <<>> THEN <<>>
    ELSE IF Head(es).key \in seen_keys
         THEN KeepFirstOfKey(Tail(es), seen_keys)
         ELSE <<Head(es)>> \o KeepFirstOfKey(Tail(es), seen_keys \cup {Head(es).key})

scan_installers(direct, archived) == KeepFirstOfKey(direct \o archived, {})

\* what scan_installers may return, with the archives it opened, over every
\* order the two walks may take
WalkOrdersOf == [files \in SUBSET FileUniverse |-> WalkOrders(files)]

ScanOutcomesNow(files, rar_ok, bad) ==
    {[entries |-> scan_installers(d, r.out), opened |-> r.opened] :
        d \in {_scan_direct(w) : w \in WalkOrdersOf[files]},
        r \in {_scan_rar_files(w, rar_ok, bad) : w \in WalkOrdersOf[files]}}

\* ScanOutcomesNow, computed once for every tree
ScanOutcomesOf ==
    [files \in SUBSET FileUniverse |->
        [rar_ok \in BOOLEAN |->
            [bad \in SUBSET {f \in files : RarSuffixOf[f]} |->
                ScanOutcomesNow(files, rar_ok, bad)]]]

ScanOutcomes(files, rar_ok, bad) == ScanOutcomesOf[files][rar_ok][bad]

KeysOf(es) == {es[i].key : i \in 1..Len(es)}

-----------------------------------------------------------------------------
(* metadata.py: the per-game store and the scan state file.                 *)
(* A JSON object is a function from its keys; EmptyDict is {} and stands    *)
(* for the None of load_override too: every caller tests only "ov and ..."  *)
(* or takes "ov or {}".                                                      *)

EmptyDict == <<>>

Range(seq) == {seq[i] : i \in 1..Len(seq)}

\* list(a_set): the elements in some order
RECURSIVE SetToSeq(_)
SetToSeq(S) ==
    IF S = {} THEN <<>>
    ELSE LET x == CHOOSE x \in S : TRUE IN <<x>> \o SetToSeq(S \ {x})

\* dict update d[k] = v for every k of upd
DictSet(d, upd) == upd @@ d

get_game_dir(game_key) ==
    [i \in 1..Len(game_key) |->
        IF game_key[i] \in AsciiLetters \cup AsciiDigits \cup {".", "_", "-"}
        THEN game_key[i] ELSE "_"]

\* every key the files of the universe can give, and its game directory
KeyUniverse ==
    {DirectEntryOf[f].key : f \in FileUniverse}
        \cup UNION {KeysOf(ListedEntriesOf[f]) : f \in FileUniverse}

GameDirOf == [k \in KeyUniverse |-> get_game_dir(k)]

load_override(st, game_key) ==
    IF GameDirOf[game_key] \in DOMAIN st THEN st[GameDirOf[game_key]]
    ELSE EmptyDict

save_override(st, game_key, data) == (GameDirOf[game_key] :> data) @@ st

get_search_name(st, game_key, default) ==
    LET ov == load_override(st, game_key)
    IN  IF "gog_search_name" \in DOMAIN ov /\ Truthy(ov.gog_search_name)
        THEN Strip(ov.gog_search_name, " ")
        ELSE default

get_product_id_override(st, game_key) ==
    LET ov == load_override(st, game_key)
    IN  IF "product_id" \in DOMAIN ov THEN {ov.product_id} ELSE {}

\* _scan_state.json is a record [kind, keys]:
\*   absent      no such file
\*   unparsable  text that is no JSON (json.JSONDecodeError)
\*   notutf8     bytes that are no UTF-8 text (UnicodeDecodeError)
\*   notdict     JSON that is no object: a list, null, a number
\*   nokeys      an object without installer_keys, or with null
\*   badkeys     an object whose installer_keys is a number
\*   dict        an object whose installer_keys is the list keys
ScanStateFile(kind, keys) == [kind |-> kind, keys |-> keys]

\* load_scan_state raises: only JSONDecodeError and OSError are caught
load_scan_state_raises(file) == file.kind = "notutf8"

load_scan_state(file) ==
    IF file.kind \in {"absent", "unparsable"}
    THEN ScanStateFile("dict", <<>>)
    ELSE file

\* set(prev.get("installer_keys") or []) raises: AttributeError when prev is
\* no dict, TypeError when installer_keys is not iterable
prev_keys_raises(prev) == prev.kind \in {"notdict", "badkeys"}

\* set(prev.get("installer_keys") or [])
prev_keys_of(prev) == IF prev.kind = "nokeys" THEN {} ELSE Range(prev.keys)

save_scan_state(installer_keys) == ScanStateFile("dict", installer_keys)

-----------------------------------------------------------------------------
(* discord_notify.py.  A post ends in one of three ways: "ok", "status" (an  *)
(* answer with status 400 or more) or "raises" (httpx.post raises).          *)

Outcomes == {"ok", "status", "raises"}

WebhookUrl == <<"h">>

\* a _post_sync that catches nothing
_post_sync_uncaught(outcome) ==
    [delivered |-> outcome = "ok", raised |-> outcome = "raises"]

\* _post_sync: whether the post arrived and whether an exception leaves it
_post_sync(outcome) ==
    [delivered |-> outcome = "ok", raised |-> FALSE]

Notification(kind, outcome) ==
    [kind |-> kind, delivered |-> _post_sync(outcome).delivered,
     raised |-> _post_sync(outcome).raised]

\* the notify functions return the posts they made
notify_scan_started(url, outcome) ==
    IF ~Truthy(url) THEN <<>> ELSE <<Notification("Scan started", outcome)>>

notify_scan_finished(url, outcome) ==
    IF ~Truthy(url) THEN <<>> ELSE <<Notification("Scan finished", outcome)>>

notify_new_games(url, game_names, outcome) ==
    IF ~Truthy(url) \/ game_names = <<>> THEN <<>>
    ELSE <<Notification("New games detected", outcome)>>

notify_games_removed(url, game_keys, outcome) ==
    IF ~Truthy(url) \/ game_keys = {} THEN <<>>
    ELSE <<Notification("Games removed", outcome)>>

notify_error(url, outcome) ==
    IF ~Truthy(url) THEN <<>> ELSE <<Notification("GOG Browser error", outcome)>>

\* the ways a call may end: one when it posts nothing
OutcomesOf(made) == IF made = <<>> THEN {"ok"} ELSE Outcomes

\* an exception left one of the posts
Raised(ps) == \E i \in 1..Len(ps) : ps[i].raised

-----------------------------------------------------------------------------
(* scan_flow.py: run_scan.  The coroutine runs without interruption between *)
(* its awaits, so one action covers the code from one await of              *)
(* resolve_and_save to the next, or to the return.                           *)

MaxRecursion == 1

\* the numbers of scans and of override requests a behaviour holds
MaxScans == 2
MaxOverrides == 1

\* current_keys = {e.key for e in entries}
current_keys == KeysOf(entries)

\* entry_by_key.get(key)
entry_by_key(es, key) == es[CHOOSE i \in 1..Len(es) : es[i].key = key]

\* a difference that reports every key of the previous snapshot as removed
diff_keys_removed_all(current, prev) ==
    [added |-> current \ prev, removed |-> prev]

\* added_keys, removed_keys = current_keys - prev_keys, prev_keys - current_keys
diff_keys(current, prev) == [added |-> current \ prev, removed |-> prev \ current]

\* the path fields run_scan writes into an override
PathInfo(entry) ==
    [installer_path |-> entry.fs_path, path_type |-> entry.path_type,
     internal_path |-> entry.internal_path, display_name |-> entry.display_name]

\* override_data of the loop over added_keys
OverrideData(st, entry) ==
    DictSet(PathInfo(entry),
            [gog_search_name |-> get_search_name(st, entry.key, entry.display_name)])

\* one iteration of "for key in current_keys"
KeepPathInfo(st, entry) ==
    LET ov  == DictSet(load_override(st, entry.key), PathInfo(entry))
        ov2 == IF "gog_search_name" \notin DOMAIN ov
               THEN DictSet(ov, [gog_search_name |->
                        get_search_name(st, entry.key, entry.display_name)])
               ELSE ov
    IN  save_override(st, entry.key, ov2)

\* the first n iterations of "for key in current_keys" in the order given
RECURSIVE KeepPathInfoAll(_, _, _, _)
KeepPathInfoAll(st, es, order, n) ==
    IF n = 0 THEN st
    ELSE KeepPathInfo(KeepPathInfoAll(st, es, order, n - 1),
                      entry_by_key(es, order[n]))

\* a snapshot that leaves out the keys whose fetch failed
SnapshotKeysOnlyFetched(es, errs) ==
    KeysOf(es) \ {errs[i].key : i \in 1..Len(errs)}

\* the keys run_scan hands to save_scan_state: list(current_keys)
SnapshotKeys(es, errs) == KeysOf(es)

Summary(es, added, removed, errs) ==
    [added |-> Cardinality(added), removed |-> Cardinality(removed),
     total |-> Cardinality(KeysOf(es)), errors |-> errs]

NoIteration ==
    /\ todo' = {}
    /\ cur' = NoneStr
    /\ override_data' = EmptyDict
    /\ product_id' = {}
    /\ depth' = 0

\* the posts after the loop over added_keys, up to the first that raises
NotifyAfterLoop(sent, url, names, removed, errs, o1, o2, o3) ==
    LET a == sent \o notify_new_games(url, names, o1)
        b == a \o notify_games_removed(url, removed, o2)
        c == b \o (IF errs # <<>> THEN notify_error(url, o3) ELSE <<>>)
    IN  IF Raised(a) THEN a ELSE IF Raised(b) THEN b ELSE c

\* from the end of the loop over added_keys to the return: the loop over
\* current_keys in the set's order, save_scan_state, the summary.  The
\* metadata directory is writable for the whole stretch or for none of it: if
\* it is not, the first write raises OSError and leaves run_scan.
FinishScan(st, errs, names, sent) ==
    /\ NoIteration
    /\ errors' = errs
    /\ new_game_names' = names
    /\ UNCHANGED ghostVars
    /\ \E o1 \in OutcomesOf(notify_new_games(webhook_url, names, "ok")),
          o2 \in OutcomesOf(notify_games_removed(webhook_url, removed_keys', "ok")),
          o3 \in OutcomesOf(IF errs # <<>> THEN notify_error(webhook_url, "ok") ELSE <<>>),
          o4 \in OutcomesOf(notify_scan_finished(webhook_url, "ok")),
          writable \in BOOLEAN :
          LET mid == NotifyAfterLoop(sent, webhook_url, names, removed_keys', errs,
                                     o1, o2, o3)
              fin == notify_scan_finished(webhook_url, o4)
          IN  IF Raised(mid)
              THEN /\ posts' = mid
                   /\ store' = st
                   /\ scan_state' = scan_state
                   /\ pc' = "failed"
                   /\ fail_at' = "notify"
                   /\ summary' = <<>>
              ELSE IF writable
              THEN /\ store' \in {KeepPathInfoAll(st, entries', order, Len(order)) :
                                    order \in Perms(KeysOf(entries'))}
                   /\ scan_state' = save_scan_state(SetToSeq(SnapshotKeys(entries', errs)))
                   /\ posts' = mid \o fin
                   /\ IF Raised(fin)
                      THEN /\ pc' = "failed"
                           /\ fail_at' = "notify"
                           /\ summary' = <<>>
                      ELSE /\ pc' = "done"
                           /\ fail_at' = "none"
                           /\ summary' = <<Summary(entries', added_keys', removed_keys', errs)>>
              ELSE /\ posts' = mid
                   /\ store' = st
                   /\ IF entries' # <<>>
                      THEN /\ scan_state' = scan_state
                           /\ fail_at' = "save_override of a current key"
                      ELSE /\ scan_state' \in {scan_state, ScanStateFile("unparsable", <<>>)}
                           /\ fail_at' = "save_scan_state"
                   /\ pc' = "failed"
                   /\ summary' = <<>>

\* the top of "for key in added_keys" with the keys in remaining still to do:
\* up to the await of resolve_and_save, or on to the end of the scan
NextAddedKey(st, remaining, errs, names, sent) ==
    IF remaining = {}
    THEN FinishScan(st, errs, names, sent)
    ELSE /\ \E key \in remaining :
              /\ todo' = remaining \ {key}
              /\ cur' = key
              /\ override_data' = OverrideData(st, entry_by_key(entries', key))
              /\ product_id' = get_product_id_override(st, key)
         /\ depth' = 0
         /\ store' = st
         /\ errors' = errs
         /\ new_game_names' = names
         /\ pc' = "fetch"
         /\ fail_at' = "none"
         /\ posts' = sent
         /\ UNCHANGED <<scan_state, summary, known, user_ov>>

ScanFails(where) ==
    /\ pc' = "failed"
    /\ fail_at' = where
    /\ NoIteration
    /\ summary' = <<>>
    /\ known' = known

\* POST /scan: trigger_scan awaits run_scan, from its start to its first await
trigger_scan ==
    /\ pc = "idle"
    /\ n_scans < MaxScans
    /\ n_scans' = n_scans + 1
    /\ n_puts' = n_puts
    /\ start_kind' = scan_state.kind
    /\ UNCHANGED <<keyVars, treeVars, schedVars, other_scan, opened, same_tree, earlier>>
    /\ \E o0 \in OutcomesOf(notify_scan_started(webhook_url, "ok")) :
          LET started == notify_scan_started(webhook_url, o0)
          IN  IF Raised(started)
              THEN /\ ScanFails("notify")
                   /\ posts' = started
                   /\ UNCHANGED <<entries, prev_keys, added_keys, removed_keys,
                                  errors, new_game_names, fileVars, user_ov>>
              ELSE /\ \E oc \in ScanOutcomes(tree, have_rarfile, bad_rars) :
                         entries' = oc.entries
                   /\ IF load_scan_state_raises(scan_state)
                      THEN /\ ScanFails("load_scan_state")
                           /\ posts' = started
                           /\ UNCHANGED <<prev_keys, added_keys, removed_keys, errors,
                                          new_game_names, fileVars, user_ov>>
                      ELSE IF prev_keys_raises(load_scan_state(scan_state))
                      THEN /\ ScanFails("prev_keys")
                           /\ posts' = started
                           /\ UNCHANGED <<prev_keys, added_keys, removed_keys, errors,
                                          new_game_names, fileVars, user_ov>>
                      ELSE LET prev == prev_keys_of(load_scan_state(scan_state))
                               d    == diff_keys(KeysOf(entries'), prev)
                           IN  /\ prev_keys' = prev
                               /\ added_keys' = d.added
                               /\ removed_keys' = d.removed
                               /\ NextAddedKey(store, d.added, <<>>, <<>>, started)

ErrNoMatch(key, search_name) == [what |-> "No GOG match", key |-> key, name |-> search_name]
ErrRaised(key) == [what |-> "raised", key |-> key, name |-> NoneStr]

GameTitle == <<"T">>

\* resolve_and_save returns or raises and run_scan goes on to its next await.
\*   answer:   "game" a game, "none" no match or a failed request, "raise" an
\*             exception
\*   writable: save_override succeeds; if not, the one in the try block raises
\*             OSError, the handler records it and calls save_override again,
\*             and that exception leaves run_scan
fetch_returns ==
    /\ pc = "fetch"
    /\ UNCHANGED <<keyVars, treeVars, schedVars, other_scan, discVars, prev_keys, added_keys,
                   removed_keys, start_kind, countVars>>
    /\ \E answer \in {"game", "none", "raise"}, writable \in BOOLEAN :
          LET names == IF answer = "game"
                       THEN Append(new_game_names, GameTitle)
                       ELSE new_game_names
              errs1 == IF answer = "none"
                       THEN Append(errors, ErrNoMatch(cur, override_data.gog_search_name))
                       ELSE errors
              errs2 == IF answer = "raise" \/ ~writable
                       THEN Append(errs1, ErrRaised(cur))
                       ELSE errs1
          IN  IF ~writable
              THEN /\ ScanFails("save_override of an added key")
                   /\ errors' = errs2
                   /\ new_game_names' = names
                   /\ UNCHANGED <<fileVars, user_ov, posts>>
              ELSE NextAddedKey(save_override(store, cur, override_data),
                                todo, errs2, names, posts)

\* get_product receives 429: it sleeps for Retry-After seconds, a number the
\* service chooses, and calls itself; asyncio.sleep(inf) never returns
gog_rate_limited ==
    /\ pc = "fetch"
    /\ depth < MaxRecursion
    /\ \E retry_after \in {"finite", "inf"} :
          pc' = IF retry_after = "finite" THEN "sleep" ELSE "hung"
    /\ UNCHANGED <<keyVars, treeVars, schedVars, other_scan, discVars, fileVars, ghostVars, fail_at,
                   prev_keys, added_keys, removed_keys, todo, cur, override_data,
                   product_id, errors, new_game_names, depth, summary, start_kind,
                   posts, countVars>>

\* asyncio.sleep returns and get_product calls itself
sleep_returns ==
    /\ pc = "sleep"
    /\ pc' = "fetch"
    /\ depth' = depth + 1
    /\ UNCHANGED <<keyVars, treeVars, schedVars, other_scan, discVars, fileVars, ghostVars, fail_at,
                   prev_keys, added_keys, removed_keys, todo, cur, override_data,
                   product_id, errors, new_game_names, summary, start_kind,
                   posts, countVars>>

NoScan ==
    /\ pc = "idle"
    /\ fail_at = "none"
    /\ prev_keys = {}
    /\ added_keys = {}
    /\ removed_keys = {}
    /\ todo = {}
    /\ cur = NoneStr
    /\ override_data = EmptyDict
    /\ product_id = {}
    /\ errors = <<>>
    /\ new_game_names = <<>>
    /\ depth = 0
    /\ summary = <<>>
    /\ start_kind = "none"
    /\ posts = <<>>

\* trigger_scan returns the summary, or the exception that left run_scan
scan_returns ==
    /\ pc \in {"done", "failed"}
    /\ pc' = "idle"
    /\ fail_at' = "none"
    /\ prev_keys' = {}
    /\ added_keys' = {}
    /\ removed_keys' = {}
    /\ NoIteration
    /\ errors' = <<>>
    /\ new_game_names' = <<>>
    /\ summary' = <<>>
    /\ start_kind' = "none"
    /\ posts' = <<>>
    /\ known' = IF pc = "done" THEN [valid |-> TRUE, keys |-> KeysOf(entries)]
                ELSE [valid |-> FALSE, keys |-> {}]
    /\ UNCHANGED <<keyVars, treeVars, schedVars, other_scan, discVars, fileVars, user_ov, countVars>>

\* the variables of a call of run_scan that has not started
IdleFrame ==
    [pc |-> "idle", fail_at |-> "none", prev_keys |-> {}, added_keys |-> {},
     removed_keys |-> {}, todo |-> {}, cur |-> NoneStr,
     override_data |-> EmptyDict, product_id |-> {}, errors |-> <<>>,
     new_game_names |-> <<>>, depth |-> 0, summary |-> <<>>,
     start_kind |-> "none", posts |-> <<>>, entries |-> <<>>]

\* the variables of the call of run_scan that is running
Frame ==
    [pc |-> pc, fail_at |-> fail_at, prev_keys |-> prev_keys,
     added_keys |-> added_keys, removed_keys |-> removed_keys, todo |-> todo,
     cur |-> cur, override_data |-> override_data, product_id |-> product_id,
     errors |-> errors, new_game_names |-> new_game_names, depth |-> depth,
     summary |-> summary, start_kind |-> start_kind, posts |-> posts,
     entries |-> entries]

\* run_scan has no lock: while one call waits at an await (or before a
\* request is taken up, or after a call has ended) the event loop runs the
\* other call, whose variables are its own
switch_scan ==
    /\ other_scan # Frame
    /\ other_scan' = Frame
    /\ pc' = other_scan.pc
    /\ fail_at' = other_scan.fail_at
    /\ prev_keys' = other_scan.prev_keys
    /\ added_keys' = other_scan.added_keys
    /\ removed_keys' = other_scan.removed_keys
    /\ todo' = other_scan.todo
    /\ cur' = other_scan.cur
    /\ override_data' = other_scan.override_data
    /\ product_id' = other_scan.product_id
    /\ errors' = other_scan.errors
    /\ new_game_names' = other_scan.new_game_names
    /\ depth' = other_scan.depth
    /\ summary' = other_scan.summary
    /\ start_kind' = other_scan.start_kind
    /\ posts' = other_scan.posts
    /\ entries' = other_scan.entries
    /\ UNCHANGED <<keyVars, treeVars, schedVars, opened, same_tree, earlier,
                   fileVars, ghostVars, countVars>>

-----------------------------------------------------------------------------
(* web/routes.py: set_override *)

UserName == <<" ","U">>

\* what a request body may hold: gog_search_name (NoneStr when not given) and
\* product_id ({} when not given)
OverrideBodies ==
    {[gog_search_name |-> n, product_id |-> p] :
        n \in {NoneStr, <<>>, UserName}, p \in {{}, {7}}}
        \ {[gog_search_name |-> NoneStr, product_id |-> {}]}

OverrideAfter(ov, body) ==
    LET ov1 == IF body.gog_search_name # NoneStr
               THEN DictSet(ov, [gog_search_name |->
                        IF Strip(body.gog_search_name, " ") = <<>> THEN NoneStr
                        ELSE Strip(body.gog_search_name, " ")])
               ELSE ov
    IN  IF body.product_id # {}
        THEN DictSet(ov1, [product_id |-> CHOOSE x \in body.product_id : TRUE])
        ELSE ov1

\* the override a user set and no running scan could have read before
UserOvAfter(game_id, body) ==
    LET d   == GameDirOf[game_id]
        old == IF d \in DOMAIN user_ov THEN user_ov[d]
               ELSE [name |-> NoneStr, pid |-> {}]
        new == [name |-> IF body.gog_search_name = NoneStr THEN old.name
                         ELSE IF Strip(body.gog_search_name, " ") = <<>> THEN NoneStr
                         ELSE Strip(body.gog_search_name, " "),
                pid  |-> IF body.product_id = {} THEN old.pid ELSE body.product_id]
    IN  IF pc = "idle" THEN (d :> new) @@ user_ov
        ELSE [x \in DOMAIN user_ov \ {d} |-> user_ov[x]]

set_override(game_id, body) ==
    /\ n_puts < MaxOverrides
    /\ n_puts' = n_puts + 1
    /\ n_scans' = n_scans
    /\ store' = save_override(store, game_id,
                              OverrideAfter(load_override(store, game_id), body))
    /\ user_ov' = UserOvAfter(game_id, body)
    /\ UNCHANGED <<keyVars, treeVars, schedVars, other_scan, discVars, scan_state, scanVars, known>>

-----------------------------------------------------------------------------
(* scheduler.py.  A schedule is the string get_scan_schedule returns; the    *)
(* keyword arguments of add_job are a record, and {} stands for None.        *)

\* str.split(): the maximal runs of characters other than white space
RECURSIVE SplitWords(_, _)
SplitWords(s, word) ==
    IF s = <<>> THEN (IF word = <<>> THEN <<>> ELSE <<word>>)
    ELSE IF Head(s) = " "
         THEN (IF word = <<>> THEN <<>> ELSE <<word>>) \o SplitWords(Tail(s), <<>>)
         ELSE SplitWords(Tail(s), Append(word, Head(s)))

\* config.py: get_scan_schedule
get_scan_schedule(env) == Strip(env, " ")

Daily == <<"d", "a", "i", "l", "y">>
Day == <<"d", "a", "y">>

_parse_schedule(sched) ==
    LET t == Lower(Strip(sched, " "))
        parts == SplitWords(t, <<>>)
    IN  IF t = <<>> THEN {}
        ELSE IF t \in {Daily, Day} THEN {[hour |-> <<"2">>, minute |-> <<"0">>]}
        ELSE IF Len(parts) = 5
             THEN {[minute |-> parts[1], hour |-> parts[2], day |-> parts[3],
                    month |-> parts[4], day_of_week |-> parts[5]]}
             ELSE {}

\* BackgroundScheduler.add_job builds the cron trigger at once and raises
\* ValueError for a field that is no cron expression; of the expressions
\* only numbers and "*" are written here
CronFieldOk(f) == f # <<>> /\ \A i \in 1..Len(f) : f[i] \in {"0", "2", "*"}

AddJobAccepts(kw) == \A name \in DOMAIN kw : CronFieldOk(kw[name])

\* the schedules of the model: unset, blank, the two words in mixed case
\* and padded, a cron line, a line of three fields, a line of five fields
\* that are no cron expressions, a single word
Schedules ==
    { <<>>,
      <<" ">>,
      <<" ", "D", "a", "i", "l", "y", " ">>,
      <<"d", "a", "y">>,
      <<"0", " ", "2", " ", "*", " ", "*", " ", "*">>,
      <<"0", " ", " ", "2", " ", "*", " ", "*", " ", "*", " ">>,
      <<"0", " ", "2", " ", "*">>,
      <<"a", " ", "b", " ", "c", " ", "d", " ", "e">>,
      <<"x">> }

MaxSchedulers == 3

NoCall == [op |-> "none", raised |-> FALSE, before |-> {}, had |-> {}]

\* the record of a call: what ran, whether it raised, and the running
\* schedulers and the value of _scheduler when it was made
Call(op, raised) ==
    [op |-> op, raised |-> raised, before |-> running, had |-> _scheduler]

start_scheduler ==
    LET cron_kw == _parse_schedule(get_scan_schedule(schedule))
        new == n_created + 1
    IN  IF cron_kw = {}
        THEN /\ last_call' = Call("start", FALSE)
             /\ UNCHANGED <<schedule, _scheduler, running, n_created>>
        ELSE /\ n_created < MaxSchedulers
             /\ n_created' = new
             /\ _scheduler' = {new}
             /\ IF \A kw \in cron_kw : AddJobAccepts(kw)
                THEN /\ running' = running \cup {new}
                     /\ last_call' = Call("start", FALSE)
                ELSE /\ running' = running
                     /\ last_call' = Call("start", TRUE)
             /\ UNCHANGED schedule

\* shutdown of a scheduler that was never started raises
\* SchedulerNotRunningError before _scheduler is reset
stop_scheduler ==
    IF _scheduler = {}
    THEN /\ last_call' = Call("stop", FALSE)
         /\ UNCHANGED <<schedule, _scheduler, running, n_created>>
    ELSE IF _scheduler \subseteq running
         THEN /\ running' = running \ _scheduler
              /\ _scheduler' = {}
              /\ last_call' = Call("stop", FALSE)
              /\ UNCHANGED <<schedule, n_created>>
         ELSE /\ last_call' = Call("stop", TRUE)
              /\ UNCHANGED <<schedule, _scheduler, running, n_created>>

-----------------------------------------------------------------------------
(* Specification SpecKey: the pure functions of the Identity Deriver applied *)
(* to every string over KeyAlphabet up to the bounds.                        *)

MaxRelLen == 2
MaxInnerLen == 2

KeyAlphabet == {"a", "_", "/", "\\", ":", " ", "."}

RECURSIVE StringsUpTo(_, _)
StringsUpTo(A, n) ==
    IF n = 0 THEN {<<>>}
    ELSE LET S == StringsUpTo(A, n - 1)
         IN  S \cup {Append(s, c) : s \in S, c \in A}

NoDiscovery ==
    /\ entries = <<>>
    /\ opened = {}
    /\ same_tree = FALSE
    /\ earlier = [valid |-> FALSE, keys |-> {}]

\* the application has not started its scheduler
NoScheduler ==
    /\ schedule = <<>>
    /\ _scheduler = {}
    /\ running = {}
    /\ n_created = 0
    /\ last_call = NoCall

NoFiles ==
    /\ n_scans = 0
    /\ n_puts = 0
    /\ scan_state = ScanStateFile("absent", <<>>)
    /\ store = EmptyDict
    /\ known = [valid |-> FALSE, keys |-> {}]
    /\ user_ov = EmptyDict

NoNameCall ==
    /\ name_path = NoneStr
    /\ name_inner = NoneStr
    /\ name_out = NoneStr

InitKey ==
    /\ NoScan
    /\ NoFiles
    /\ NoScheduler
    /\ other_scan = IdleFrame
    /\ tree = {}
    /\ bad_rars = {}
    /\ have_rarfile = TRUE
    /\ webhook_url = <<>>
    /\ NoDiscovery
    /\ relative_path \in StringsUpTo(KeyAlphabet, MaxRelLen) \ {<<>>}
    /\ internal \in {NoneStr} \cup StringsUpTo(KeyAlphabet, MaxInnerLen)
    /\ key_out = NoneStr
    /\ NoNameCall

CallSanitizeKey ==
    /\ key_out = NoneStr
    /\ key_out' = _sanitize_key(relative_path, internal)
    /\ UNCHANGED <<relative_path, internal, name_path, name_inner, name_out, treeVars, schedVars, other_scan, discVars, fileVars, scanVars, ghostVars, countVars>>

NextKey == CallSanitizeKey

SpecKey == InitKey /\ [][NextKey]_vars

-----------------------------------------------------------------------------
(* C1: every key _sanitize_key returns consists only of the characters      *)
(* [A-Za-z0-9._-].                                                          *)
C1_KeyCharsSafe ==
    key_out # NoneStr => \A i \in 1..Len(key_out) : key_out[i] \in SafeChars

\* nothing but separators, reserved characters and underscores in the arguments
OnlyReplacedChars ==
    /\ \A i \in 1..Len(relative_path) :
          relative_path[i] \in PathSeps \cup ReservedChars \cup {"_"}
    /\ Truthy(internal) =>
          \A i \in 1..Len(internal) : internal[i] \in PathSeps \cup {"_"}

(* C12: the key _sanitize_key returns is never empty and neither starts nor  *)
(* ends with "_", and it is "unknown" when the arguments hold nothing but    *)
(* characters that become or are "_".                                        *)
C12_KeyStrippedNeverEmpty ==
    key_out # NoneStr =>
        /\ Len(key_out) > 0
        /\ key_out[1] # "_"
        /\ key_out[Len(key_out)] # "_"
        /\ OnlyReplacedChars => key_out = Unknown_key

\* a call with an inner path that fell back to "unknown"
C12_FellBackToUnknown ==
    /\ key_out = Unknown_key
    /\ Truthy(internal)

-----------------------------------------------------------------------------
(* Specification SpecName: _display_name_from_path applied to the files of   *)
(* NameFiles in the filesystem root and in every directory whose name is a   *)
(* string over NameAlphabet of up to MaxDirLen characters.                   *)

MaxDirLen == 2

NameAlphabet == {"a", "_", " "}

F_setup_my == <<"s","e","t","u","p","_","m","y",".","e","x","e">>
F_G_T_part01 == <<"G","_","T",".","p","a","r","t","0","1",".","r","a","r">>
F_G_T_PART1 == <<"G","_","T",".","P","A","R","T","1",".","R","A","R">>
F_G_T == <<"G","_","T",".","r","a","r">>
F_us_rar == <<"_",".","r","a","r">>
F_us == <<"_">>

NameFiles == {F_setup_my, F_G_T_part01, F_G_T_PART1, F_G_T, F_us_rar, F_us}

\* "/" and "/<dir>/"
NameDirs ==
    {<<"/">>} \cup
    {<<"/">> \o d \o <<"/">> : d \in StringsUpTo(NameAlphabet, MaxDirLen) \ {<<>>}}

InitName ==
    /\ NoScan
    /\ NoFiles
    /\ NoScheduler
    /\ other_scan = IdleFrame
    /\ tree = {}
    /\ bad_rars = {}
    /\ have_rarfile = TRUE
    /\ webhook_url = <<>>
    /\ NoDiscovery
    /\ relative_path = NoneStr
    /\ internal = NoneStr
    /\ key_out = NoneStr
    /\ name_path \in {d \o f : d \in NameDirs, f \in NameFiles}
    /\ name_inner \in {NoneStr, <<>>, N_setup_g}
    /\ name_out = NoneStr

CallDisplayName ==
    /\ name_out = NoneStr
    /\ name_out' = _display_name_from_path(name_path, name_inner)
    /\ UNCHANGED <<relative_path, internal, key_out, name_path, name_inner,
                   treeVars, schedVars, other_scan, discVars, fileVars, scanVars, ghostVars, countVars>>

NextName == CallDisplayName

SpecName == InitName /\ [][NextName]_vars

\* s with every underscore turned into a space
Spaced(s) == [i \in 1..Len(s) |-> IF s[i] = "_" THEN " " ELSE s[i]]

\* t is s without the spaces at its two ends
IsTrimOf(t, s) ==
    /\ \E i, j \in 0..Len(s) :
          /\ i + j <= Len(s)
          /\ t = SubSeq(s, i + 1, Len(s) - j)
          /\ \A k \in 1..i : s[k] = " "
          /\ \A k \in (Len(s) - j + 1)..Len(s) : s[k] = " "
    /\ t # <<>> => t[1] # " " /\ t[Len(t)] # " "

\* the archive's base name without extension and without volume suffix
ArchiveBase(path) ==
    IF PART_RAR_PATTERN(PathName(path))
    THEN StripPartN(PathStem(path)) ELSE PathStem(path)

(* C13 as stated: the name of a standalone artifact is the parent            *)
(* directory's name with underscores replaced by spaces, the file's base     *)
(* name without extension treated the same way when the parent has no name,  *)
(* and "Unknown" when that is empty; the name of an archived artifact is the *)
(* archive's base name without extension and volume suffix, underscores      *)
(* replaced by spaces.                                                       *)
C13_DisplayNameAsStated ==
    name_out # NoneStr =>
        name_out =
           IF Truthy(name_inner) THEN Spaced(ArchiveBase(name_path))
           ELSE IF PathName(PathParent(name_path)) # <<>>
                THEN Spaced(PathName(PathParent(name_path)))
           ELSE IF PathStem(name_path) # <<>> THEN Spaced(PathStem(name_path))
           ELSE Str_Unknown

(* C13 amended: as stated, with the spaces at both ends of the name removed  *)
(* after the replacement; "Unknown" stands for a base name that is empty     *)
(* after that, and the archive's file name for an archive base that is.      *)
C13_DisplayNameTrimmed ==
    name_out # NoneStr =>
        IF Truthy(name_inner)
        THEN \/ name_out # <<>> /\ IsTrimOf(name_out, Spaced(ArchiveBase(name_path)))
             \/ /\ IsTrimOf(<<>>, Spaced(ArchiveBase(name_path)))
                /\ name_out = PathName(name_path)
        ELSE IF PathName(PathParent(name_path)) # <<>>
        THEN IsTrimOf(name_out, Spaced(PathName(PathParent(name_path))))
        ELSE \/ name_out # <<>> /\ IsTrimOf(name_out, Spaced(PathStem(name_path)))
             \/ /\ IsTrimOf(<<>>, Spaced(PathStem(name_path)))
                /\ name_out = Str_Unknown

\* the first volume G_T.part01.rar in a directory, named "G T"
C13_VolumeNamedGT ==
    /\ name_out = <<"G", " ", "T">>
    /\ PathName(name_path) = F_G_T_part01
    /\ Truthy(name_inner)

-----------------------------------------------------------------------------
(* Specification SpecDisc: the Discovery Engine called over a tree that the  *)
(* environment changes between calls.                                        *)

NoKeyCall ==
    /\ relative_path = NoneStr
    /\ internal = NoneStr
    /\ key_out = NoneStr
    /\ NoNameCall

IsRar(path) == RarSuffixOf[path]

InitDisc ==
    /\ NoKeyCall
    /\ NoScan
    /\ NoFiles
    /\ NoScheduler
    /\ other_scan = IdleFrame
    /\ tree \in SUBSET FileUniverse
    /\ bad_rars = {}
    /\ have_rarfile \in BOOLEAN
    /\ webhook_url = <<>>
    /\ NoDiscovery

\* GET /games: list_games calls scan_installers
list_games ==
    /\ \E oc \in ScanOutcomes(tree, have_rarfile, bad_rars) :
          /\ entries' = oc.entries
          /\ opened' = oc.opened
    /\ earlier' = [valid |-> same_tree, keys |-> IF same_tree THEN KeysOf(entries) ELSE {}]
    /\ same_tree' = TRUE
    /\ UNCHANGED <<keyVars, treeVars, schedVars, other_scan, fileVars, scanVars, ghostVars, countVars>>

TreeChanged ==
    /\ UNCHANGED <<fileVars, scanVars, ghostVars, countVars>>
    /\ same_tree' = FALSE
    /\ earlier' = [valid |-> FALSE, keys |-> {}]
    /\ UNCHANGED <<entries, opened>>

AddFile(universe) ==
    /\ \E f \in universe \ tree : tree' = tree \cup {f}
    /\ TreeChanged
    /\ UNCHANGED <<keyVars, schedVars, other_scan, bad_rars, have_rarfile, webhook_url>>

\* the environment: a file appears under the root
EnvAddFile == AddFile(FileUniverse)

\* the environment: a file is deleted
EnvRemoveFile ==
    /\ \E f \in tree :
          /\ tree' = tree \ {f}
          /\ bad_rars' = bad_rars \ {f}
    /\ TreeChanged
    /\ UNCHANGED <<keyVars, schedVars, other_scan, have_rarfile, webhook_url>>

\* the environment: an archive becomes unreadable (truncated, no permission)
EnvDamageRar ==
    /\ \E f \in tree \ bad_rars :
          /\ IsRar(f)
          /\ bad_rars' = bad_rars \cup {f}
    /\ TreeChanged
    /\ UNCHANGED <<keyVars, schedVars, other_scan, tree, have_rarfile, webhook_url>>

NextDisc == list_games \/ EnvAddFile \/ EnvRemoveFile \/ EnvDamageRar

SpecDisc == InitDisc /\ [][NextDisc]_vars

(* C5: two calls of scan_installers over an unchanged tree return the same   *)
(* key set, whatever order the walks enumerate the files in.                 *)
C5_SameKeysOnUnchangedTree ==
    earlier.valid => KeysOf(entries) = earlier.keys

\* the installer entries an archive's listing holds
MatchingNames(f) ==
    {Namelist(f)[i] : i \in {i \in 1..Len(Namelist(f)) : SETUP_PATTERN(EntryBase(Namelist(f)[i]))}}

EntriesFor(f, name) ==
    {i \in 1..Len(entries) :
        entries[i].fs_path = AbsPath(f) /\ entries[i].internal_path = name}

\* a standalone installer of the tree has the key of an installer f lists
ShadowedByFile(f) ==
    \E g \in tree :
        DirectHit[g] /\ DirectEntryOf[g].key \in KeysOf(ListedEntriesOf[f])

(* C6: a multi-volume archive is listed exactly once and only through its    *)
(* first volume: _is_first_rar_part holds of volume 1 and of an archive with *)
(* no volume marker only, no volume 2 or higher is opened, and a readable    *)
(* first volume yields exactly one entry for each installer it lists.        *)
C6_GroupListedOnceThroughFirstVolume ==
    /\ \A f \in FileUniverse : FirstPartOf[f] <=> f \in {F_a_G, F_b_G1}
    /\ F_b_G2 \notin opened
    /\ (same_tree /\ have_rarfile /\ F_b_G1 \in tree \ bad_rars
           /\ ~ShadowedByFile(F_b_G1))
          => \A name \in MatchingNames(F_b_G1) :
                Cardinality(EntriesFor(F_b_G1, name)) = 1

(* C11: an archive that cannot be opened or listed, and any archive when the *)
(* rarfile module is missing, contributes no entry, while every standalone   *)
(* installer and, when some archive is unreadable, every entry of every      *)
(* readable single or first volume is still in the result of the same call.  *)
C11_UnreadableArchiveIsSoft ==
    same_tree =>
        /\ \A i \in 1..Len(entries) :
              entries[i].path_type = "rar" =>
                 /\ have_rarfile
                 /\ \A f \in bad_rars : entries[i].fs_path # AbsPath(f)
        /\ \A f \in tree : DirectHit[f] => DirectEntryOf[f] \in Range(entries)
        /\ (have_rarfile /\ bad_rars # {}) =>
              \A f \in tree \ bad_rars :
                 (FirstPartOf[f] /\ ~ShadowedByFile(f))
                    => Range(ListedEntriesOf[f]) \subseteq Range(entries)

(* C15: every single-volume archive and every first volume of the tree that  *)
(* can be listed and lists a name matching SETUP_PATTERN has an entry of     *)
(* path_type "rar" with that archive as fs_path in the result.               *)
C15_EveryListedArchiveHasAnEntry ==
    (same_tree /\ have_rarfile) =>
        \A f \in tree \ bad_rars :
            (FirstPartOf[f] /\ MatchingNames(f) # {} /\ ~ShadowedByFile(f)) =>
                \E i \in 1..Len(entries) :
                    /\ entries[i].path_type = "rar"
                    /\ entries[i].fs_path = AbsPath(f)

(* C16: the result of scan_installers holds no key twice, and a key that a   *)
(* standalone installer of the tree produces belongs to a standalone entry,  *)
(* also when an archive lists an installer with the same key.                *)
C16_OneEntryPerKeyFileFirst ==
    /\ \A i, j \in 1..Len(entries) : entries[i].key = entries[j].key => i = j
    /\ same_tree =>
          \A g \in tree :
              DirectHit[g] =>
                 \E i \in 1..Len(entries) :
                     /\ entries[i].key = DirectEntryOf[g].key
                     /\ entries[i] = DirectEntryOf[g]

\* a standalone installer and a listed one with the same key, one entry
C16_FileWonOverArchive ==
    /\ same_tree
    /\ F_dup \in tree
    /\ F_b_G1 \in opened \ bad_rars
    /\ have_rarfile
    /\ DirectEntryOf[F_dup].key \in KeysOf(ListedEntriesOf[F_b_G1])
    /\ DirectEntryOf[F_dup] \in Range(entries)


-----------------------------------------------------------------------------
(* Specification Spec: scans started one after the other through POST /scan  *)
(* over a tree that changes between scans (a running scan reads the tree     *)
(* only when it starts). SpecLive adds the fairness of the scan's steps and  *)
(* SpecOverride the requests PUT /games/{id}/override, arriving at any time. *)

ScanFiles == {F_AB_sp, F_AB_us, F_a_G}

\* the ids a client may name: the keys of the installers of ScanFiles
GameIds ==
    {DirectEntryOf[f].key : f \in {f \in ScanFiles : DirectHit[f]}}
        \cup UNION {KeysOf(ListedEntriesOf[f]) : f \in ScanFiles}

\* what _scan_state.json may be before the first scan writes it
InitialScanStates ==
    {ScanStateFile(kind, <<>>) :
        kind \in {"absent", "unparsable", "notutf8", "notdict", "nokeys", "badkeys"}}

Init ==
    /\ NoKeyCall
    /\ NoDiscovery
    /\ NoScan
    /\ tree \in SUBSET ScanFiles
    /\ bad_rars = {}
    /\ have_rarfile = TRUE
    /\ webhook_url = <<>>
    /\ scan_state \in InitialScanStates
    /\ store = EmptyDict
    /\ known = [valid |-> FALSE, keys |-> {}]
    /\ user_ov = EmptyDict
    /\ NoScheduler
    /\ other_scan = IdleFrame
    /\ n_scans = 0
    /\ n_puts = 0

put_override == \E game_id \in GameIds, body \in OverrideBodies : set_override(game_id, body)

installer_appears == pc = "idle" /\ AddFile(ScanFiles)

installer_deleted == pc = "idle" /\ EnvRemoveFile

ScanStep == trigger_scan \/ fetch_returns \/ gog_rate_limited \/ sleep_returns \/ scan_returns

Next == ScanStep \/ installer_appears \/ installer_deleted

Spec == Init /\ [][Next]_vars

\* each request of the fetch is answered or times out (httpx timeouts), and a
\* sleep of finitely many seconds ends
Fairness ==
    /\ WF_vars(fetch_returns \/ gog_rate_limited)
    /\ WF_vars(sleep_returns)
    /\ WF_vars(scan_returns)

SpecLive == Spec /\ Fairness

\* the same with a webhook configured or not, over two files and with the
\* snapshot absent or left by an earlier run that discovered a third file
NotifyFiles == {F_AB_sp, F_a_G}

InitNotify ==
    /\ NoKeyCall
    /\ NoDiscovery
    /\ NoScan
    /\ tree \in SUBSET NotifyFiles
    /\ bad_rars = {}
    /\ have_rarfile = TRUE
    /\ webhook_url \in {<<>>, WebhookUrl}
    /\ scan_state \in {ScanStateFile("absent", <<>>),
                       ScanStateFile("dict", <<DirectEntryOf[F_AB_us].key>>)}
    /\ store = EmptyDict
    /\ known = [valid |-> FALSE, keys |-> {}]
    /\ user_ov = EmptyDict
    /\ NoScheduler
    /\ other_scan = IdleFrame
    /\ n_scans = 0
    /\ n_puts = 0

notify_installer_appears == pc = "idle" /\ AddFile(NotifyFiles)

NextNotify == ScanStep \/ notify_installer_appears \/ installer_deleted

SpecNotify == InitNotify /\ [][NextNotify]_vars

\* the same with override requests arriving at any time
NextOverride == Next \/ put_override

SpecOverride == Init /\ [][NextOverride]_vars

-----------------------------------------------------------------------------
\* a scan whose diff is in added_keys and removed_keys
DiffComputed ==
    \/ pc \in {"fetch", "sleep", "hung", "done"}
    \/ pc = "failed" /\ fail_at \notin {"load_scan_state", "prev_keys"}

(* C2: when a scan has completed, _scan_state.json holds exactly the keys    *)
(* that scan discovered, also when fetches of the scan failed; so a scan     *)
(* that follows a completed one adds no key the completed one discovered,    *)
(* and a key the completed one discovered and this one does not is in        *)
(* removed_keys and not in the snapshot this one writes.                     *)
C2_SnapshotIsDiscoveredKeys ==
    pc = "done" =>
        /\ scan_state.kind = "dict"
        /\ Range(scan_state.keys) = KeysOf(entries)
        /\ Len(scan_state.keys) = Cardinality(KeysOf(entries))
        /\ known.valid =>
              /\ added_keys \cap known.keys = {}
              /\ \A k \in known.keys \ KeysOf(entries) :
                    k \in removed_keys /\ k \notin Range(scan_state.keys)

\* a completed scan with a failed fetch, after a completed scan that
\* discovered a key that is still there and one that is gone
C2_CompletedAfterCompleted ==
    /\ pc = "done"
    /\ known.valid
    /\ errors # <<>>
    /\ known.keys \cap KeysOf(entries) # {}
    /\ known.keys \ KeysOf(entries) # {}

(* C3: a failure while an added key is processed is recorded in errors for   *)
(* that key and never ends the scan: no scan fails in the save_override of   *)
(* an added key.                                                             *)
C3_AddedKeyFailureNeverEndsScan ==
    ~(pc = "failed" /\ fail_at = "save_override of an added key")

(* C4: an override a user set on a game (search name, product id) while no   *)
(* scan was running is still the stored one after any number of scans.       *)
C4_OverrideSurvivesScans ==
    \A d \in DOMAIN user_ov :
        /\ d \in DOMAIN store
        /\ user_ov[d].name # NoneStr =>
              /\ "gog_search_name" \in DOMAIN store[d]
              /\ store[d].gog_search_name = user_ov[d].name
        /\ user_ov[d].pid # {} =>
              /\ "product_id" \in DOMAIN store[d]
              /\ store[d].product_id \in user_ov[d].pid

\* the titles of the posts a completed scan makes, in order
ExpectedPosts ==
    <<"Scan started">>
        \o (IF new_game_names # <<>> THEN <<"New games detected">> ELSE <<>>)
        \o (IF removed_keys # {} THEN <<"Games removed">> ELSE <<>>)
        \o (IF errors # <<>> THEN <<"GOG Browser error">> ELSE <<>>)
        \o <<"Scan finished">>

(* C14: no failure of a webhook post reaches the scan: no scan fails in a    *)
(* notify call, errors holds entries of added keys only, and a completed     *)
(* scan has made every post its result calls for, returned its summary,      *)
(* stored a record for every key and written the snapshot, whichever posts   *)
(* failed; without a webhook URL nothing is posted.                          *)
C14_PostFailureStaysInside ==
    /\ fail_at # "notify"
    /\ ~Truthy(webhook_url) => posts = <<>>
    /\ \A i \in 1..Len(errors) : errors[i].key \in added_keys
    /\ pc = "done" =>
          /\ Truthy(webhook_url) =>
                [i \in 1..Len(posts) |-> posts[i].kind] = ExpectedPosts
          /\ summary = <<Summary(entries, added_keys, removed_keys, errors)>>
          /\ scan_state.kind = "dict"
          /\ Range(scan_state.keys) = KeysOf(entries)
          /\ \A k \in KeysOf(entries) : load_override(store, k) # EmptyDict

\* a completed scan all of whose five posts failed
C14_AllFivePostsFailed ==
    /\ pc = "done"
    /\ Len(posts) = 5
    /\ \A i \in 1..Len(posts) : ~posts[i].delivered

(* C17: two distinct keys of one discovery pass have distinct directories    *)
(* under the metadata root, so that the override of one is not the override  *)
(* of the other.                                                             *)
C17_DistinctKeysDistinctDirs ==
    \A i, j \in 1..Len(entries) :
        entries[i].key # entries[j].key =>
            get_game_dir(entries[i].key) # get_game_dir(entries[j].key)

(* C7: with B the keys of the snapshot read and C the discovered keys, a key *)
(* is in added_keys exactly when it is in C and not in B and in removed_keys *)
(* exactly when it is in B and not in C; the two sets are disjoint; and the  *)
(* summary of a completed scan has total = |B| + added - removed.            *)
C7_DiffIsExact ==
    DiffComputed =>
        /\ \A k \in KeyUniverse :
              /\ k \in added_keys <=> (k \in KeysOf(entries) /\ k \notin prev_keys)
              /\ k \in removed_keys <=> (k \in prev_keys /\ k \notin KeysOf(entries))
        /\ added_keys \cup removed_keys \subseteq KeyUniverse
        /\ added_keys \cap removed_keys = {}
        /\ pc = "done" =>
              /\ summary[1].added = Cardinality(added_keys)
              /\ summary[1].removed = Cardinality(removed_keys)
              /\ summary[1].total =
                     Cardinality(prev_keys) + summary[1].added - summary[1].removed

\* a completed scan that added a key, removed a key and kept a key
C7_AddedRemovedAndKept ==
    /\ pc = "done"
    /\ added_keys # {}
    /\ removed_keys # {}
    /\ prev_keys \cap KeysOf(entries) # {}

(* C8: every scan that starts eventually finishes, by returning its summary  *)
(* or by raising, whatever the metadata service answers.                     *)
C8_ScanEventuallyFinishes ==
    (pc # "idle") ~> (pc \in {"done", "failed"})

(* C9: a scan that starts on a _scan_state.json that is absent, unparsable   *)
(* or not of the expected shape takes the previous key set as empty without  *)
(* failing: every discovered key is added and none is removed.               *)
C9_BadSnapshotIsEmptySnapshot ==
    (pc # "idle" /\ start_kind # "dict") =>
        /\ fail_at \notin {"load_scan_state", "prev_keys"}
        /\ prev_keys = {}
        /\ added_keys = KeysOf(entries)
        /\ removed_keys = {}

(* C10: when a scan has completed, every discovered key has a stored record  *)
(* whose installer_path, path_type, internal_path and display_name are those *)
(* of its entry and that has a gog_search_name.                              *)
C10_EveryKeyHasItsRecord ==
    pc = "done" =>
        \A i \in 1..Len(entries) :
            LET ov == load_override(store, entries[i].key)
            IN  /\ ov # EmptyDict
                /\ ov.installer_path = entries[i].fs_path
                /\ ov.path_type = entries[i].path_type
                /\ ov.internal_path = entries[i].internal_path
                /\ ov.display_name = entries[i].display_name
                /\ "gog_search_name" \in DOMAIN ov

-----------------------------------------------------------------------------
(* Specification SpecSched: start_scheduler and stop_scheduler called in any *)
(* order under each schedule of Schedules.                                   *)

InitSched ==
    /\ NoScan
    /\ NoFiles
    /\ NoDiscovery
    /\ NoKeyCall
    /\ tree = {}
    /\ bad_rars = {}
    /\ have_rarfile = TRUE
    /\ webhook_url = <<>>
    /\ schedule \in Schedules
    /\ _scheduler = {}
    /\ running = {}
    /\ n_created = 0
    /\ last_call = NoCall
    /\ other_scan = IdleFrame

OtherVars == <<keyVars, treeVars, discVars, fileVars, scanVars, ghostVars, countVars,
               other_scan>>

app_starts == start_scheduler /\ UNCHANGED OtherVars

app_stops == stop_scheduler /\ UNCHANGED OtherVars

NextSched == app_starts \/ app_stops

SpecSched == InitSched /\ [][NextSched]_vars

(* C19: after any sequence of start_scheduler and stop_scheduler calls at    *)
(* most one background scheduler is running, none is running after           *)
(* stop_scheduler returns, stop_scheduler without a running scheduler        *)
(* changes nothing, and start_scheduler with an empty or unparsable schedule *)
(* starts none.                                                              *)
C19_SchedulerIsSingleton ==
    /\ Cardinality(running) <= 1
    /\ (last_call.op = "stop" /\ ~last_call.raised) => running = {}
    /\ (last_call.op = "stop" /\ last_call.before = {})
          => running = {} /\ _scheduler = last_call.had
    /\ (last_call.op = "start" /\ _parse_schedule(get_scan_schedule(schedule)) = {})
          => running = last_call.before /\ _scheduler = last_call.had

-----------------------------------------------------------------------------
(* Specification SpecOverlap: two calls of run_scan over a tree that does    *)
(* not change, each running while the other waits.                           *)

OverlapFiles == {F_AB_sp, F_a_G}

InitOverlap ==
    /\ NoKeyCall
    /\ NoDiscovery
    /\ NoScan
    /\ tree \in SUBSET OverlapFiles
    /\ bad_rars = {}
    /\ have_rarfile = TRUE
    /\ webhook_url = <<>>
    /\ scan_state \in {ScanStateFile("absent", <<>>),
                       ScanStateFile("dict", <<DirectEntryOf[F_AB_us].key>>)}
    /\ store = EmptyDict
    /\ known = [valid |-> FALSE, keys |-> {}]
    /\ user_ov = EmptyDict
    /\ NoScheduler
    /\ other_scan = IdleFrame
    /\ n_scans = 0
    /\ n_puts = 0

NextOverlap == ScanStep \/ switch_scan

SpecOverlap == InitOverlap /\ [][NextOverlap]_vars

\* a call of run_scan between its diff and its return
InAddedLoop(p) == p \in {"fetch", "sleep", "hung"}

(* C18: when two scans overlap, a key of an artifact that is present         *)
(* throughout is in added_keys of at most one of them, and when both have    *)
(* finished _scan_state.json holds the key set of the tree.                  *)
C18_OverlappingScansAddOnce ==
    /\ (InAddedLoop(pc) /\ InAddedLoop(other_scan.pc))
          => added_keys \cap other_scan.added_keys = {}
    /\ (pc = "done" /\ other_scan.pc = "done")
          => /\ scan_state.kind = "dict"
             /\ Range(scan_state.keys) = KeysOf(entries)
             /\ Range(scan_state.keys) = KeysOf(other_scan.entries)

====
